---- MODULE Spec2Model ----
(***************************************************************************)
(* InfraGlow Lovelace card (infraglow-card.js, escalating-backoff revision, *)
(* lines 83-572): configuration synchronisation with the backend, and the  *)
(* mapping of a normalized reading to colour tuples.  The load and reload  *)
(* of the flat-retry revision (lines 846-886) have a section of their own. *)
(*                                                                         *)
(* Granularity.  JavaScript runs every event to completion and drains the  *)
(* microtask queue before the next event, so one action is one event (a    *)
(* hass assignment, a click, a timer, a websocket answer) together with    *)
(* every continuation it resumes, up to the next await on a timer or on    *)
(* the network.  Lit renders in a microtask after requestUpdate() or after *)
(* a declared property was assigned, so the render belongs to the action.  *)
(*                                                                         *)
(* Numbers with a fraction are kept in tenths: flash speed 2.0 Hz is 20,   *)
(* update interval 0.5 s is 5.  null, undefined and [] of _vizData are     *)
(* all <<>>: the code only ever reads it through ?.length and || [].       *)
(*                                                                         *)
(* Colours.  The source interpolates in IEEE doubles and rounds with       *)
(* Math.round; here a + (b - a) * t is an exact fraction over 1000.  The   *)
(* two differ only where the exact value is a half and the double falls    *)
(* below it (50 * 0.29 is 14.499...).  The colours, readings and fractions *)
(* drawn below are ones where both give the same channels.                 *)
(***************************************************************************)
EXTENDS Integers, Sequences, FiniteSets, TLC

(* ------------------------------ bounds -------------------------------- *)

\* What the operator does in one run: an update counts 1, a create or a delete,
\* which starts a reload of up to five attempts, counts 2.
MaxWork == 3

(* ------------------------- program constants -------------------------- *)

\* for (let i = 0; i < 5; i++)
MaxAttempts == 5

\* Fallbacks of the wire mapping, lines 137-148.
DefaultColorLow == <<0, 255, 0>>
DefaultColorHigh == <<255, 0, 0>>
DefaultFlashColor == <<255, 0, 0>>
DefaultFlashSpeed == 20
DefaultFlashStyle == "pulse"
DefaultSegmentId == 0
DefaultNumLeds == 30
DefaultUpdateInterval == 5

\* An absent (undefined) wire field or overlay field.
NoColor == <<>>
NoNum == 0 - 1
NoStr == ""

\* MODE_DEFAULTS, lines 31-37, for the modes the operator picks here.
ModeInputs == {"alert"}
ModeDefaults(m) ==
    IF m = "alert" THEN [floor |-> 0, ceiling |-> 1] ELSE [floor |-> 0, ceiling |-> 100]

(* ------------------------------ inputs -------------------------------- *)

\* A colour input's value "#rrggbb" as its six hexadecimal digits.
HexInputs == { <<0, 0, 0, 0, 15, 15>> }
\* The low colour input is given two values, one after the other.
LowHexInputs == HexInputs \cup { <<15, 15, 0, 0, 0, 0>> }
SpeedInputs == { 50, 80 }
StyleInputs == { "pulse" }
EntityInputs == { "sensor.cpu" }
ConfigInputs == { "", "dev1" }
\* The devices a dashboard names when it reconfigures the card: two with a config
\* entry, one without, one the device registry does not hold, and none.
DeviceInputs == { "", "dev1", "dev2", "bare", "ghost" }

\* hass.devices[device_id].config_entries
KnownDevices == { "dev1", "dev2", "bare" }
ConfigEntries(dev) ==
    IF dev = "dev1" THEN <<"entry1">> ELSE IF dev = "dev2" THEN <<"entry2">> ELSE <<>>

VARIABLES
    _config,          \* the configured device_id, "" before setConfig
    _hass,            \* a hass object was assigned
    _loaded, _loading,
    _vizData,         \* the held record list
    _entryId,         \* "" until a load found the config entry
    _colorState,      \* the overlay: subentry id -> field -> value
    _showCreateForm, _createMode, _createData,
    view,             \* what the last render() drew: "blank", "loading" or "list"
    reloads,          \* the _reloadConfig invocations, in starting order
    queries,          \* get_config queries in flight, in issuing order
    calls,            \* create_viz, delete_viz and update_viz calls in flight
    backend,          \* the wire records get_config returns for entry1
    provisioning,     \* records accepted by create_viz and not yet materialized
    nextId,           \* the next subentry id the backend hands out
    work,             \* the mutations issued so far, counted as MaxWork counts them
    intent,           \* subentry id -> wire field -> the value its last update asked for
    answered,         \* how a get_config query ended in the last step or "declined"
                      \* for a confirm() the operator declined, "" for no answer
    ended,            \* the _reloadConfig invocation that returned in the last step
    stale,            \* the last step applied the answer to a query that is older
                      \* than a query whose answer was applied before
    raised,           \* what the last step threw to its caller or left unhandled,
                      \* "" for nothing
    states,           \* hass.states of the entities of each held record: the state
                      \* strings of its normalized and its include_black entity
    tuples,           \* what _computeTuples returned for each record in the last render
    reading,          \* the bar _renderReading drew for each record in the last render
    lerped            \* the last evaluation of _lerpColor: its arguments and its result

vars == << _config, _hass, _loaded, _loading, _vizData, _entryId, _colorState,
           _showCreateForm, _createMode, _createData, view, reloads, queries,
           calls, backend, provisioning, nextId, work, intent, answered, ended,
           stale, raised, states, tuples, reading, lerped >>

card == << _config, _hass, _loaded, _loading, _vizData, _entryId >>
form == << _showCreateForm, _createMode, _createData >>
server == << backend, provisioning, nextId >>
overlay == << _colorState, intent >>
paint == << states, tuples, reading, lerped >>


(* ------------------------- colours and wire --------------------------- *)

\* parseInt(hex.slice(1, 3), 16) and so on: two hexadecimal digits per channel.
_hexToRgb(hex) ==
    << 16 * hex[1] + hex[2], 16 * hex[3] + hex[4], 16 * hex[5] + hex[6] >>

\* A fallback chain that prefers the backend's colour to the overlay's.
OrColor_BackendFirst(a, b, c) == IF b # NoColor THEN b ELSE IF a # NoColor THEN a ELSE c

\* a || b || c on colour arrays: an array is truthy, an absent one is not.
OrColor(a, b, c) == IF a # NoColor THEN a ELSE IF b # NoColor THEN b ELSE c

\* (this._colorState || {})[viz.subentry_id], {} when the id has no entry.
NoSaved == [low |-> NoColor, high |-> NoColor, flashColor |-> NoColor]
SavedOf(colorState, id) == IF id \in DOMAIN colorState THEN colorState[id] ELSE NoSaved

\* The mapping of one wire record, lines 131-150.
MapViz(viz, colorState) ==
    LET saved == SavedOf(colorState, viz.subentry_id) IN
    [ subentryId     |-> viz.subentry_id,
      name           |-> IF viz.title # NoStr THEN viz.title
                         ELSE IF viz.name # NoStr THEN viz.name ELSE "Visualization",
      entities       |-> viz.entity_map,
      colorLow       |-> OrColor(saved.low, viz.color_low, DefaultColorLow),
      colorHigh      |-> OrColor(saved.high, viz.color_high, DefaultColorHigh),
      isAlert        |-> viz.renderer_type = "alert",
      rendererType   |-> IF viz.renderer_type # NoStr THEN viz.renderer_type ELSE "effect",
      mode           |-> viz.mode,
      sourceEntity   |-> viz.entity_id,
      segmentId      |-> IF viz.segment_id # NoNum THEN viz.segment_id ELSE DefaultSegmentId,
      numLeds        |-> IF viz.num_leds # NoNum THEN viz.num_leds ELSE DefaultNumLeds,
      updateInterval |-> IF viz.update_interval # NoNum THEN viz.update_interval
                         ELSE DefaultUpdateInterval,
      flashColor     |-> OrColor(saved.flashColor, viz.flash_color, DefaultFlashColor),
      flashSpeed     |-> IF viz.flash_speed # NoNum THEN viz.flash_speed ELSE DefaultFlashSpeed,
      flashStyle     |-> IF viz.flash_style # NoStr THEN viz.flash_style ELSE DefaultFlashStyle ]

\* (result.visualizations || []).map(...)
MapAll(visualizations, colorState) ==
    [ k \in 1..Len(visualizations) |-> MapViz(visualizations[k], colorState) ]

\* render(), lines 210-243: nothing, "Loading...", or the record list with its controls.
Render(hass, config, loaded) ==
    IF ~hass \/ config = "" THEN "blank" ELSE IF ~loaded THEN "loading" ELSE "list"

(* --------------------------- colour mapping --------------------------- *)

\* Fractions of the gradient are kept in thousandths, percentages in tenths of a
\* percent: t = 0.30 is 300 and 75.0 % is 750, so that normPct / 100 keeps its
\* digits.  A product a + (b - a) * t is kept exactly, as a numerator over One.
One == 1000

\* A spread of a tenth of the gradient.
TUPLE_SPREAD_Tenth == One \div 10

\* TUPLE_SPREAD, line 39.
TUPLE_SPREAD == 300

\* A JavaScript number, NaN or null.
Null == [kind |-> "null", val |-> 0]
NaN == [kind |-> "NaN", val |-> 0]
Number(k) == [kind |-> "number", val |-> k]
isNaN(x) == x.kind = "NaN"

\* The characters of an entity state: the digits stand for themselves.
Dot == 10
Minus == 11
Letter == 12
IsDigit(c) == c \in 0..9

\* The length of the run of digits of s that starts at position j.
RECURSIVE Digits(_, _)
Digits(s, j) == IF j <= Len(s) /\ IsDigit(s[j]) THEN 1 + Digits(s, j + 1) ELSE 0

\* The value of the digits s[j], ..., s[j + n - 1].
RECURSIVE Decimal(_, _, _)
Decimal(s, j, n) == IF n = 0 THEN 0 ELSE 10 * Decimal(s, j, n - 1) + s[j + n - 1]

\* parseFloat(state), in tenths: an optional sign, digits, and a point with
\* digits, of which the tenths count; NaN when no digit starts the number, as for
\* "unknown", "unavailable" and the undefined state of an entity hass does not hold.
parseFloat(s) ==
    LET neg   == Len(s) > 0 /\ s[1] = Minus
        from  == IF neg THEN 2 ELSE 1
        n     == Digits(s, from)
        point == from + n <= Len(s) /\ s[from + n] = Dot
        m     == IF point THEN Digits(s, from + n + 1) ELSE 0
        whole == Decimal(s, from, n)
        tenth == IF m > 0 THEN s[from + n + 1] ELSE 0
    IN IF n = 0 /\ m = 0 THEN NaN
       ELSE Number((IF neg THEN 0 - 1 ELSE 1) * (10 * whole + tenth))

Min(a, b) == IF a <= b THEN a ELSE b
Max(a, b) == IF a >= b THEN a ELSE b

\* Math.round of the fraction num / den, den > 0: the nearest integer, a half
\* going up.
Math_round(num, den) == (2 * num + den) \div (2 * den)

\* An interpolation that runs from b to a.
_lerpColor_Reversed(a, b, t) ==
    LET c == Max(0, Min(One, t)) IN
    << Math_round(One * b[1] + (a[1] - b[1]) * c, One),
       Math_round(One * b[2] + (a[2] - b[2]) * c, One),
       Math_round(One * b[3] + (a[3] - b[3]) * c, One) >>

\* An interpolation that uses t as it comes.
_lerpColor_Unclamped(a, b, t) ==
    << Math_round(One * a[1] + (b[1] - a[1]) * t, One),
       Math_round(One * a[2] + (b[2] - a[2]) * t, One),
       Math_round(One * a[3] + (b[3] - a[3]) * t, One) >>

\* _lerpColor(a, b, t), lines 523-530.
_lerpColor(a, b, t) ==
    LET c == Max(0, Min(One, t)) IN
    << Math_round(One * a[1] + (b[1] - a[1]) * c, One),
       Math_round(One * a[2] + (b[2] - a[2]) * c, One),
       Math_round(One * a[3] + (b[3] - a[3]) * c, One) >>

\* _gradientColor(t, low, high), lines 532-534.
_gradientColor(t, low, high) == _lerpColor(low, high, t)

\* hass.states[eid]?.state of the entity a record binds to a role.
NoStates == [normalized |-> <<>>, include_black |-> NoStr]

\* A fraction that takes the percentage for the fraction.
Fraction_Percent(normPct) ==
    ((IF normPct = Null THEN 0 ELSE normPct.val) * One) \div 10

\* t = (normPct ?? 0) / 100, line 541: tenths of a percent to thousandths.
Fraction(normPct) ==
    ((IF normPct = Null THEN 0 ELSE normPct.val) * One) \div (100 * 10)

\* low, high and primary, lines 542-544.
Low(viz) == OrColor(viz.colorLow, NoColor, DefaultColorLow)
High(viz) == OrColor(viz.colorHigh, NoColor, DefaultColorHigh)

\* An alert drawn in the high colour of its gradient.
Flash_High(viz) == << [label |-> "Flash", color |-> High(viz)] >>

\* The alert branch, lines 537-539.
Flash(viz) ==
    << [label |-> "Flash", color |-> OrColor(viz.flashColor, NoColor, DefaultFlashColor)] >>

Primary(viz, normPct) == _gradientColor(Fraction(normPct), Low(viz), High(viz))

\* A test that takes every record that is no alert for an effect.
IsEffect_NotAlert(viz) == ~viz.isAlert

\* The test of line 546.
IsEffect(viz) == viz.rendererType = "effect"

\* includeBlack, lines 547-548: the record binds the role and its entity is on.
IncludeBlack(viz, st) == "include_black" \in viz.entities /\ st.include_black = "on"

\* Tuples that put black last, after the two hues.
WithBlack_Last(primary, low, high, t) ==
    << [label |-> "Primary", color |-> primary],
       [label |-> "Secondary", color |-> _gradientColor(Min(One, t + TUPLE_SPREAD), low, high)],
       [label |-> "Tertiary", color |-> <<0, 0, 0>>] >>

\* The tuples with black, lines 550-557.
WithBlack(primary, low, high, t) ==
    LET tSec      == Min(One, t + TUPLE_SPREAD)
        secondary == _gradientColor(tSec, low, high)
    IN << [label |-> "Primary", color |-> primary],
          [label |-> "Secondary", color |-> <<0, 0, 0>>],
          [label |-> "Tertiary", color |-> secondary] >>

\* A spread that wraps around at the low end of the gradient.
Spread_Wraps(primary, low, high, t) ==
    LET tLo == IF t < TUPLE_SPREAD THEN t - TUPLE_SPREAD + One ELSE t - TUPLE_SPREAD
        tHi == Min(One, t + TUPLE_SPREAD)
    IN << [label |-> "Primary", color |-> primary],
          [label |-> "Secondary", color |-> _gradientColor(tLo, low, high)],
          [label |-> "Tertiary", color |-> _gradientColor(tHi, low, high)] >>

\* The tuples without black, lines 560-568.
Spread(primary, low, high, t) ==
    LET tLo       == Max(0, t - TUPLE_SPREAD)
        tHi       == Min(One, t + TUPLE_SPREAD)
        secondary == _gradientColor(tLo, low, high)
        tertiary  == _gradientColor(tHi, low, high)
    IN << [label |-> "Primary", color |-> primary],
          [label |-> "Secondary", color |-> secondary],
          [label |-> "Tertiary", color |-> tertiary] >>

\* _computeTuples(viz, normPct), lines 536-572; st holds the states of the
\* record's entities.
_computeTuples(viz, normPct, st) ==
    IF viz.isAlert THEN Flash(viz)
    ELSE LET t       == Fraction(normPct)
             primary == Primary(viz, normPct)
         IN IF IsEffect(viz)
            THEN IF IncludeBlack(viz, st)
                 THEN WithBlack(primary, Low(viz), High(viz), t)
                 ELSE Spread(primary, Low(viz), High(viz), t)
            ELSE << [label |-> "Color", color |-> primary] >>

\* The normVal of _renderViz and _renderReading, lines 294-295 and 360-361.
NormVal(viz, st) ==
    IF "normalized" \in viz.entities THEN parseFloat(st.normalized) ELSE Null

\* The normPct _renderViz hands to _renderTuples, line 296.
NormPct(viz, st) ==
    LET normVal == NormVal(viz, st) IN
    IF normVal # Null /\ ~isNaN(normVal) THEN normVal ELSE Null

\* A clamp to the fraction range, 0 to 1.
Clamp_Fraction(normVal) == Number(Min(Max(normVal.val, 0), 1 * 10))

\* Math.min(Math.max(normVal, 0), 100), line 362, in tenths of a percent.
Clamp(normVal) == Number(Min(Max(normVal.val, 0), 100 * 10))

\* _renderReading(viz), lines 357-377: the percentage of the bar and its colour,
\* both absent when there is no reading.
_renderReading(viz, st) ==
    LET normVal == NormVal(viz, st)
        pct     == IF normVal # Null /\ ~isNaN(normVal) THEN Clamp(normVal) ELSE Null
    IN [ pct |-> pct,
         fc  |-> IF pct # Null
                 THEN _gradientColor((pct.val * One) \div (100 * 10), Low(viz), High(viz))
                 ELSE NoColor ]

\* _renderTuples(viz, normPct), lines 379-389, as _renderViz calls it.
_renderTuples(viz, st) == _computeTuples(viz, NormPct(viz, st), st)

(* ------------------------------ backend ------------------------------- *)

\* The record the backend keeps for an accepted create_viz: nothing but what the
\* create parameters carry, so every other field is absent from the wire.
NewWire(id, mode, params) ==
    [ subentry_id |-> id, title |-> NoStr, name |-> NoStr, entity_map |-> {},
      color_low |-> NoColor, color_high |-> NoColor,
      renderer_type |-> IF mode = "alert" THEN "alert" ELSE "effect",
      mode |-> mode, entity_id |-> params.entity_id,
      segment_id |-> params.segment_id, num_leds |-> params.num_leds,
      update_interval |-> NoNum,
      flash_color |-> NoColor, flash_speed |-> NoNum, flash_style |-> NoStr ]

\* Records configured before the card was built: a gradient and an alert, with
\* every field on the wire.
Stored ==
    << [ subentry_id |-> 1, title |-> "CPU", name |-> NoStr,
         entity_map |-> {"enabled", "normalized", "include_black"},
         color_low |-> <<0, 0, 255>>, color_high |-> <<255, 255, 0>>,
         renderer_type |-> "effect", mode |-> "system_load", entity_id |-> "sensor.cpu",
         segment_id |-> 1, num_leds |-> 60, update_interval |-> 10,
         flash_color |-> NoColor, flash_speed |-> NoNum, flash_style |-> NoStr ],
       [ subentry_id |-> 2, title |-> NoStr, name |-> "Door",
         entity_map |-> {"enabled"},
         color_low |-> NoColor, color_high |-> NoColor,
         renderer_type |-> "alert", mode |-> "alert", entity_id |-> "sensor.cpu",
         segment_id |-> 2, num_leds |-> 10, update_interval |-> NoNum,
         flash_color |-> <<0, 255, 255>>, flash_speed |-> 30, flash_style |-> "strobe" ] >>

\* The visualizations of a get_config answer for a config entry.
Visualizations(entry) == IF entry = "entry1" THEN backend ELSE <<>>

RemoveAt(s, k) == [ j \in 1..(Len(s) - 1) |-> IF j < k THEN s[j] ELSE s[j + 1] ]
WithoutId(s, id) == SelectSeq(s, LAMBDA w : w.subentry_id # id)
Ids(s) == { s[k].subentry_id : k \in 1..Len(s) }


(* ------------------------ load and reload ----------------------------- *)

\* A head that returns with the guard set when the device has no config entry.
LoadHead_GuardKept(hass, config, loading, entryId) ==
    IF loading \/ ~hass \/ config = ""
    THEN [query |-> FALSE, loading |-> loading, entryId |-> entryId]
    ELSE IF config \notin KnownDevices
    THEN [query |-> FALSE, loading |-> TRUE, entryId |-> entryId]
    ELSE IF ConfigEntries(config) = <<>>
    THEN [query |-> FALSE, loading |-> TRUE, entryId |-> entryId]
    ELSE [query |-> TRUE, loading |-> TRUE, entryId |-> ConfigEntries(config)[1]]

\* The synchronous head of _loadConfig(), lines 118-125: whether a get_config
\* query goes out, and _loading and _entryId when it returns or awaits.
LoadHead(hass, config, loading, entryId) ==
    IF loading \/ ~hass \/ config = ""
    THEN [query |-> FALSE, loading |-> loading, entryId |-> entryId]
    ELSE IF config \notin KnownDevices
    THEN [query |-> FALSE, loading |-> FALSE, entryId |-> entryId]
    ELSE IF ConfigEntries(config) = <<>>
    THEN [query |-> FALSE, loading |-> FALSE, entryId |-> entryId]
    ELSE [query |-> TRUE, loading |-> TRUE, entryId |-> ConfigEntries(config)[1]]

\* A get_config query in flight: the reload that awaits it (0: none does), and
\* the entry it asks for.
Query(owner, entry) == [owner |-> owner, entry |-> entry, late |-> FALSE]

\* The queries in flight once the answer to the k-th was applied: the ones sent
\* before it are late from now on.
Overtaken(qs, k) ==
    RemoveAt([ j \in 1..Len(qs) |-> IF j < k THEN [qs[j] EXCEPT !.late = TRUE] ELSE qs[j] ], k)

\* A backoff of two seconds before every attempt.
Delay_Flat(i) == 2 * 1000

\* A first attempt that is made at once.
Delay_FirstAtOnce(i) == IF i = 0 THEN 0 ELSE 1500 + i * 500

\* The backoff before attempt i, line 164, in milliseconds.
Delay(i) == 1500 + i * 500

\* A _reloadConfig() invocation: where its loop is (pc), the loop variable i,
\* the delays of the timers it has set so far (timers), the outcomes of its
\* attempts so far, the mutation that began it and what the card held when it
\* began. A slot is free before and after an invocation.
FreeSlot ==
    [ pc |-> "free", i |-> 0, timers |-> <<>>, seen |-> {}, cause |-> NoStr, id |-> 0,
      preViz |-> <<>>, preLoaded |-> FALSE ]
NewReload(cause, id) ==
    [ pc |-> "sleep", i |-> 0, timers |-> << Delay(0) >>, seen |-> {}, cause |-> cause,
      id |-> id, preViz |-> _vizData, preLoaded |-> _loaded ]

\* The backoff an invocation has awaited when it made n attempts: it awaits
\* the delay of each attempt before that attempt's load.
RECURSIVE Waited(_)
Waited(n) == IF n = 0 THEN 0 ELSE Waited(n - 1) + Delay(n - 1)

\* What an invocation leaves when it returns: the attempts it made (n), the
\* backoff it awaited, the outcome of the last attempt, and the rest of its
\* record.
NoneEnded ==
    [ pc |-> "none", n |-> 0, waited |-> 0, timers |-> <<>>, last |-> NoStr, seen |-> {},
      cause |-> NoStr,
      id |-> 0, preViz |-> <<>>, preLoaded |-> FALSE ]
Ended(r, outcome) ==
    [ pc |-> "done", n |-> r.i + 1, waited |-> Waited(r.i + 1), timers |-> r.timers,
      last |-> outcome,
      seen |-> r.seen \cup {outcome},
      cause |-> r.cause, id |-> r.id, preViz |-> r.preViz, preLoaded |-> r.preLoaded ]

\* if (this._vizData?.length) break;  and the loop header's i++, i < 5.
BreakTest(viz) == Len(viz) > 0
\* A loop header that stops one attempt early.
LoopEnds_OneShort(r, viz) == BreakTest(viz) \/ r.i + 1 >= MaxAttempts - 1
LoopEnds(r, viz) == BreakTest(viz) \/ r.i + 1 >= MaxAttempts
\* A loop that does not count its attempts.
LoopNext_NoCount(r, outcome, viz) ==
    IF LoopEnds(r, viz) THEN FreeSlot
    ELSE [r EXCEPT !.pc = "sleep", !.seen = @ \cup {outcome}]
LoopNext(r, outcome, viz) ==
    IF LoopEnds(r, viz) THEN FreeSlot
    ELSE [r EXCEPT !.i = @ + 1, !.pc = "sleep", !.timers = Append(@, Delay(r.i + 1)),
                   !.seen = @ \cup {outcome}]

\* The reload that awaited a load resumes after it, lines 165-166.
Resume(owner, outcome, viz) ==
    IF owner = 0 THEN reloads
    ELSE [reloads EXCEPT ![owner] = LoopNext(@, outcome, viz)]
EndedBy(owner, outcome, viz) ==
    IF owner # 0 /\ LoopEnds(reloads[owner], viz) THEN Ended(reloads[owner], outcome)
    ELSE NoneEnded

\* The first lines of _reloadConfig(), 161-162, up to the first backoff delay.
FreeSlots == { l \in 1..Len(reloads) : reloads[l].pc = "free" }
\* A reload that cancels the ones under way.
ReloadBegins_Cancels(cause, id) ==
    /\ _loaded' = FALSE
    /\ _loading' = FALSE
    /\ reloads' = [ l \in 1..Len(reloads) |-> FreeSlot ] \o << NewReload(cause, id) >>
\* A reload that joins the one under way instead of starting.
ReloadBegins_Joins(cause, id) ==
    /\ _loaded' = FALSE
    /\ _loading' = FALSE
    /\ reloads' = IF \E l \in 1..Len(reloads) : reloads[l].pc # "free" THEN reloads
                  ELSE IF FreeSlots = {} THEN Append(reloads, NewReload(cause, id))
                  ELSE [reloads EXCEPT ![1] = NewReload(cause, id)]
ReloadBegins(cause, id) ==
    /\ _loaded' = FALSE
    /\ _loading' = FALSE
    /\ reloads' = IF FreeSlots = {} THEN Append(reloads, NewReload(cause, id))
                  ELSE LET l == CHOOSE x \in FreeSlots : \A y \in FreeSlots : x <= y IN
                       [reloads EXCEPT ![l] = NewReload(cause, id)]

\* A step in which no query was answered, no reload returned and nothing was thrown.
Quiet == answered' = NoStr /\ ended' = NoneEnded /\ raised' = NoStr /\ stale' = FALSE

\* A setter that loads on the first hass object only.
set_hass_FirstOnly ==
    LET h == IF ~_loaded /\ ~_hass THEN LoadHead(TRUE, _config, _loading, _entryId)
             ELSE [query |-> FALSE, loading |-> _loading, entryId |-> _entryId] IN
    /\ _hass' = TRUE
    /\ _loading' = h.loading
    /\ _entryId' = h.entryId
    /\ queries' = IF h.query THEN Append(queries, Query(0, h.entryId)) ELSE queries
    /\ view' = Render(TRUE, _config, _loaded)
    /\ UNCHANGED << _config, _loaded, _vizData, overlay, form, reloads, calls,
                    server, work >>
    /\ Quiet
    /\ UNCHANGED paint

\* A setter that loads on every hass object, loaded or not.
set_hass_Always ==
    LET h == LoadHead(TRUE, _config, _loading, _entryId) IN
    /\ _hass' = TRUE
    /\ _loading' = h.loading
    /\ _entryId' = h.entryId
    /\ queries' = IF h.query THEN Append(queries, Query(0, h.entryId)) ELSE queries
    /\ view' = Render(TRUE, _config, _loaded)
    /\ UNCHANGED << _config, _loaded, _vizData, overlay, form, reloads, calls,
                    server, work >>
    /\ Quiet
    /\ UNCHANGED paint

\* set hass(value), lines 104-109, with a hass object.
set_hass ==
    LET h == IF ~_loaded THEN LoadHead(TRUE, _config, _loading, _entryId)
             ELSE [query |-> FALSE, loading |-> _loading, entryId |-> _entryId] IN
    /\ _hass' = TRUE
    /\ _loading' = h.loading
    /\ _entryId' = h.entryId
    /\ queries' = IF h.query THEN Append(queries, Query(0, h.entryId)) ELSE queries
    /\ view' = Render(TRUE, _config, _loaded)
    /\ UNCHANGED << _config, _loaded, _vizData, overlay, form, reloads, calls,
                    server, work >>
    /\ Quiet
    /\ UNCHANGED paint

\* A setConfig that keeps the list and the flag when the device changes.
setConfig_KeepsList(device_id) ==
    IF device_id = ""
    THEN /\ raised' = "setConfig"
         /\ answered' = NoStr /\ ended' = NoneEnded
         /\ stale' = FALSE
         /\ UNCHANGED paint
         /\ UNCHANGED << card, overlay, form, view, reloads, queries, calls,
                         server, work >>
    ELSE /\ _config' = device_id
         /\ view' = Render(_hass, device_id, _loaded)
         /\ Quiet
         /\ UNCHANGED paint
         /\ UNCHANGED << _hass, _loaded, _vizData, _loading, _entryId, overlay, form,
                         reloads, queries, calls, server, work >>

\* setConfig(config), lines 95-100; "" is a config without device_id.
setConfig(device_id) ==
    IF device_id = ""
    THEN /\ raised' = "setConfig"
         /\ answered' = NoStr /\ ended' = NoneEnded
         /\ stale' = FALSE
         /\ UNCHANGED paint
         /\ UNCHANGED << card, overlay, form, view, reloads, queries, calls,
                         server, work >>
    ELSE LET changed == _config = "" \/ _config # device_id IN
         /\ _config' = device_id
         /\ _vizData' = IF changed THEN <<>> ELSE _vizData
         /\ _loaded' = IF changed THEN FALSE ELSE _loaded
         /\ view' = Render(_hass, device_id, _loaded')
         /\ Quiet
         /\ UNCHANGED paint
         /\ UNCHANGED << _hass, _loading, _entryId, overlay, form, reloads,
                         queries, calls, server, work >>

\* A loop that calls _loadConfig() without awaiting it.
BackoffElapses_NoAwait(l) ==
    /\ reloads[l].pc = "sleep"
    /\ LET h == LoadHead(_hass, _config, _loading, _entryId) IN
       /\ _loading' = h.loading
       /\ _entryId' = h.entryId
       /\ queries' = IF h.query THEN Append(queries, Query(l, h.entryId)) ELSE queries
       /\ reloads' = Resume(l, "noquery", _vizData)
    /\ UNCHANGED << _config, _hass, _loaded, _vizData, overlay, form, view,
                    calls, server, work >>
    /\ ended' = EndedBy(l, "noquery", _vizData)
    /\ answered' = NoStr /\ raised' = NoStr
    /\ stale' = FALSE
    /\ UNCHANGED paint

\* The backoff delay of a reload elapses (line 164) and it calls _loadConfig().
BackoffElapses(l) ==
    /\ reloads[l].pc = "sleep"
    /\ LET h == LoadHead(_hass, _config, _loading, _entryId) IN
       /\ _loading' = h.loading
       /\ _entryId' = h.entryId
       /\ queries' = IF h.query THEN Append(queries, Query(l, h.entryId)) ELSE queries
       /\ reloads' = IF h.query THEN [reloads EXCEPT ![l].pc = "load"]
                     ELSE Resume(l, "noquery", _vizData)
    /\ UNCHANGED << _config, _hass, _loaded, _vizData, overlay, form, view,
                    calls, server, work >>
    /\ ended' = IF LoadHead(_hass, _config, _loading, _entryId).query THEN NoneEnded
                ELSE EndedBy(l, "noquery", _vizData)
    /\ answered' = NoStr /\ raised' = NoStr
    /\ stale' = FALSE
    /\ UNCHANGED paint

\* The get_config query resolves, lines 131-152 and 156, and the reload that
\* awaited the load goes on.
LoadResolves(k) ==
    LET q == queries[k]
        result == Visualizations(q.entry) IN
    /\ _vizData' = MapAll(result, _colorState)
    /\ _loaded' = TRUE
    /\ _loading' = FALSE
    /\ view' = Render(_hass, _config, TRUE)
    /\ queries' = Overtaken(queries, k)
    /\ reloads' = Resume(q.owner, IF Len(result) > 0 THEN "nonempty" ELSE "empty", _vizData')
    /\ UNCHANGED << _config, _hass, _entryId, overlay, form, calls, server, work >>
    /\ ended' = EndedBy(queries[k].owner,
                        IF Len(Visualizations(queries[k].entry)) > 0 THEN "nonempty" ELSE "empty",
                        _vizData')
    /\ answered' = "resolved" /\ raised' = NoStr
    /\ stale' = queries[k].late
    /\ UNCHANGED paint

\* A rejection without the finally clause of line 156.
LoadRejected_GuardHeld(k) ==
    LET q == queries[k] IN
    /\ queries' = RemoveAt(queries, k)
    /\ reloads' = Resume(q.owner, "rejected", _vizData)
    /\ UNCHANGED << _config, _hass, _loaded, _loading, _vizData, _entryId, overlay,
                    form, view, calls, server, work >>
    /\ ended' = EndedBy(queries[k].owner, "rejected", _vizData)
    /\ answered' = "rejected" /\ raised' = NoStr
    /\ stale' = FALSE
    /\ UNCHANGED paint

\* The get_config query is rejected (or its answer is no object), lines 153-157.
LoadRejected(k) ==
    LET q == queries[k] IN
    /\ _loading' = FALSE
    /\ queries' = RemoveAt(queries, k)
    /\ reloads' = Resume(q.owner, "rejected", _vizData)
    /\ UNCHANGED << _config, _hass, _loaded, _vizData, _entryId, overlay, form,
                    view, calls, server, work >>
    /\ ended' = EndedBy(queries[k].owner, "rejected", _vizData)
    /\ answered' = "rejected" /\ raised' = NoStr
    /\ stale' = FALSE
    /\ UNCHANGED paint


(* ----------------------------- create form ---------------------------- *)

\* {} as _createData (also its value before any assignment: the code reads it
\* through ?. and || {}).
NoData == [entity_id |-> NoStr, segment_id |-> NoNum, num_leds |-> NoNum,
           floor |-> NoNum, ceiling |-> NoNum]

\* The "Add Visualization" button, line 237.
OpenCreateForm ==
    /\ view = "list" /\ ~_showCreateForm
    /\ _showCreateForm' = TRUE
    /\ _createMode' = NoStr
    /\ view' = Render(_hass, _config, _loaded)
    /\ UNCHANGED << card, overlay, _createData, reloads, queries, calls, server,
                    work >>
    /\ Quiet
    /\ UNCHANGED paint

\* The close button of the form, line 268.
CloseCreateForm ==
    /\ view = "list" /\ _showCreateForm
    /\ _showCreateForm' = FALSE
    /\ _createMode' = NoStr
    /\ _createData' = NoData
    /\ view' = Render(_hass, _config, _loaded)
    /\ UNCHANGED << card, overlay, reloads, queries, calls, server, work >>
    /\ Quiet
    /\ UNCHANGED paint

\* A button of the mode list, lines 271-275.
ChooseMode(m) ==
    /\ view = "list" /\ _showCreateForm /\ _createMode = NoStr
    /\ _createMode' = m
    /\ _createData' = [ entity_id |-> NoStr, segment_id |-> 0, num_leds |-> 30,
                        floor |-> ModeDefaults(m).floor, ceiling |-> ModeDefaults(m).ceiling ]
    /\ view' = Render(_hass, _config, _loaded)
    /\ UNCHANGED << card, overlay, _showCreateForm, reloads, queries, calls,
                    server, work >>
    /\ Quiet
    /\ UNCHANGED paint

\* The form's value-changed handler, line 279, with a source entity picked.
FormChanged(entity_id) ==
    /\ view = "list" /\ _showCreateForm /\ _createMode # NoStr
    /\ _createData' = [_createData EXCEPT !.entity_id = entity_id]
    /\ view' = Render(_hass, _config, _loaded)
    /\ UNCHANGED << card, overlay, _showCreateForm, _createMode, reloads, queries,
                    calls, server, work >>
    /\ Quiet
    /\ UNCHANGED paint

\* The "Back" button, line 281.
BackToModes ==
    /\ view = "list" /\ _showCreateForm /\ _createMode # NoStr
    /\ _createMode' = NoStr
    /\ _createData' = NoData
    /\ view' = Render(_hass, _config, _loaded)
    /\ UNCHANGED << card, overlay, _showCreateForm, reloads, queries, calls,
                    server, work >>
    /\ Quiet
    /\ UNCHANGED paint

(* -------------------------- create and delete ------------------------- *)

\* A guard that does not look at the source entity.
CreateReady_NoEntity == _entryId # NoStr /\ _createMode # NoStr
\* The negation of the guard of line 175.
CreateReady ==
    _entryId # NoStr /\ _createMode # NoStr /\ _createData.entity_id # NoStr

\* _createVisualization() up to its await, lines 175-180 (the "Create" button).
_createVisualization ==
    /\ view = "list" /\ _showCreateForm /\ _createMode # NoStr
    /\ IF ~CreateReady
       THEN UNCHANGED << calls, work >>
       ELSE /\ calls' = Append(calls, [ type |-> "create_viz", entry_id |-> _entryId,
                                        mode |-> _createMode, params |-> _createData ])
            /\ work' = work + 2
    /\ UNCHANGED << card, overlay, form, view, reloads, queries, server >>
    /\ Quiet
    /\ UNCHANGED paint

\* create_viz is acknowledged: the backend accepted the record, which is not yet
\* among the visualizations; lines 181-184.
CreateAcknowledged(k) ==
    /\ calls[k].type = "create_viz"
    /\ provisioning' = Append(provisioning, NewWire(nextId, calls[k].mode, calls[k].params))
    /\ nextId' = nextId + 1
    /\ calls' = RemoveAt(calls, k)
    /\ _showCreateForm' = FALSE
    /\ _createMode' = NoStr
    /\ _createData' = NoData
    /\ ReloadBegins("create", nextId)
    /\ view' = Render(_hass, _config, FALSE)
    /\ UNCHANGED << _config, _hass, _vizData, _entryId, overlay, queries, backend,
                    work >>
    /\ Quiet
    /\ UNCHANGED paint

\* The backend shows a provisioned record in its answers from now on.
Materialize ==
    /\ provisioning # <<>>
    /\ backend' = Append(backend, Head(provisioning))
    /\ provisioning' = Tail(provisioning)
    /\ UNCHANGED << card, overlay, form, view, reloads, queries, calls, nextId,
                    work >>
    /\ Quiet
    /\ UNCHANGED paint

\* A delete that does not wait for the operator's answer.
DeleteReady_Unasked(confirmed) == _entryId # NoStr
\* The negation of the guards of lines 191-192; confirmed is the operator's answer
\* to confirm().
DeleteReady(confirmed) == _entryId # NoStr /\ confirmed

\* _deleteVisualization(viz) up to its await, lines 191-199 (the delete button of
\* a drawn record).
_deleteVisualization(v, confirmed) ==
    /\ view = "list" /\ v \in 1..Len(_vizData)
    /\ IF ~DeleteReady(confirmed)
       THEN UNCHANGED << calls, work >>
       ELSE /\ calls' = Append(calls, [ type |-> "delete_viz", entry_id |-> _entryId,
                                        subentry_id |-> _vizData[v].subentryId ])
            /\ work' = work + 2
    /\ UNCHANGED << card, overlay, form, view, reloads, queries, server >>
    /\ answered' = IF _entryId # NoStr /\ ~confirmed THEN "declined" ELSE NoStr
    /\ stale' = FALSE
    /\ UNCHANGED paint
    /\ ended' = NoneEnded /\ raised' = NoStr

\* An acknowledged delete that is not followed by a reload.
DeleteAcknowledged_NoReload(k) ==
    /\ calls[k].type = "delete_viz"
    /\ calls[k].subentry_id \in Ids(backend)
    /\ backend' = WithoutId(backend, calls[k].subentry_id)
    /\ calls' = RemoveAt(calls, k)
    /\ UNCHANGED << card, overlay, form, view, reloads, queries, provisioning,
                    nextId, work >>
    /\ Quiet
    /\ UNCHANGED paint

\* delete_viz is acknowledged: the backend dropped the record; line 200.
DeleteAcknowledged(k) ==
    /\ calls[k].type = "delete_viz"
    /\ calls[k].subentry_id \in Ids(backend)
    /\ backend' = WithoutId(backend, calls[k].subentry_id)
    /\ calls' = RemoveAt(calls, k)
    /\ ReloadBegins("delete", calls[k].subentry_id)
    /\ UNCHANGED << _config, _hass, _vizData, _entryId, overlay, form, view,
                    queries, provisioning, nextId, work >>
    /\ Quiet
    /\ UNCHANGED paint

\* A rejection after which the form is reset and the reload begun all the same.
MutationRejected_GoesOn(k) ==
    /\ calls[k].type \in {"create_viz", "delete_viz"}
    /\ calls' = RemoveAt(calls, k)
    /\ _showCreateForm' = FALSE
    /\ _createMode' = NoStr
    /\ _createData' = NoData
    /\ ReloadBegins("rejected", 0)
    /\ view' = Render(_hass, _config, FALSE)
    /\ UNCHANGED << _config, _hass, _vizData, _entryId, overlay, queries, server, work >>
    /\ Quiet
    /\ UNCHANGED paint

\* create_viz or delete_viz is rejected: the catch of lines 185-187 and 201-203.
MutationRejected(k) ==
    /\ calls[k].type \in {"create_viz", "delete_viz"}
    /\ calls' = RemoveAt(calls, k)
    /\ UNCHANGED << card, overlay, form, view, reloads, queries, server, work >>
    /\ Quiet
    /\ UNCHANGED paint


(* ------------------------------- update -------------------------------- *)

\* An entry that is made anew at every write.
WithEntry_Fresh(colorState, id) ==
    [ j \in DOMAIN colorState \cup {id} |-> IF j = id THEN NoSaved ELSE colorState[j] ]
\* if (!this._colorState) ...; if (!this._colorState[id]) this._colorState[id] = {};
WithEntry(colorState, id) ==
    IF id \in DOMAIN colorState THEN colorState ELSE colorState @@ (id :> NoSaved)

\* What the operator last asked a field of a record to be.
Asked(id, param, value) ==
    IF id \in DOMAIN intent
    THEN [intent EXCEPT ![id] = [f \in DOMAIN @ \cup {param} |-> IF f = param THEN value ELSE @[f]]]
    ELSE intent @@ (id :> (param :> value))

UpdateViz(slot_id, param, value) ==
    [ type |-> "update_viz", entry_id |-> _entryId, slot_id |-> slot_id,
      param |-> param, value |-> value ]

\* The overlay and the drawn record after _updateColor, lines 497-500.
ColorOverlay(colorState, id, param, rgb) ==
    LET cs == WithEntry(colorState, id) IN
    IF param = "color_low" THEN [cs EXCEPT ![id].low = rgb]
    ELSE IF param = "color_high" THEN [cs EXCEPT ![id].high = rgb]
    ELSE cs
ColorLocal(viz, param, rgb) ==
    IF param = "color_low" THEN [viz EXCEPT !.colorLow = rgb]
    ELSE IF param = "color_high" THEN [viz EXCEPT !.colorHigh = rgb]
    ELSE viz

\* _updateColor(viz, param, hexColor), lines 492-502: a colour input of a drawn
\* gradient record changed.
_updateColor(v, param, hexColor) ==
    LET rgb == _hexToRgb(hexColor)
        id == _vizData[v].subentryId IN
    /\ view = "list" /\ v \in 1..Len(_vizData) /\ ~_vizData[v].isAlert
    /\ calls' = Append(calls, UpdateViz(id, param, rgb))
    /\ _colorState' = ColorOverlay(_colorState, id, param, rgb)
    /\ intent' = Asked(id, param, rgb)
    /\ _vizData' = [_vizData EXCEPT ![v] = ColorLocal(@, param, rgb)]
    /\ view' = Render(_hass, _config, _loaded)
    /\ work' = work + 1
    /\ UNCHANGED << _config, _hass, _loaded, _loading, _entryId, form, reloads,
                    queries, server >>
    /\ Quiet
    /\ UNCHANGED paint

\* The overlay after _updateWsParam, lines 508-510.
WsOverlay(colorState, id, localKey, value) ==
    LET cs == WithEntry(colorState, id) IN
    IF localKey = "flashColor" THEN [cs EXCEPT ![id].flashColor = value] ELSE cs

\* An update that leaves the drawn record alone.
WsLocal_Dropped(viz, localKey, value) == viz
\* viz[localKey] = value, line 511.
WsLocal(viz, localKey, value) == [viz EXCEPT ![localKey] = value]

\* _updateWsParam(viz, param, value, localKey), lines 504-513: a control of a
\* drawn alert record changed (lines 391-407).
_updateWsParam(v, param, value, localKey) ==
    LET id == _vizData[v].subentryId IN
    /\ view = "list" /\ v \in 1..Len(_vizData) /\ _vizData[v].isAlert
    /\ calls' = Append(calls, UpdateViz(id, param, value))
    /\ _colorState' = WsOverlay(_colorState, id, localKey, value)
    /\ intent' = Asked(id, param, value)
    /\ _vizData' = [_vizData EXCEPT ![v] = WsLocal(@, localKey, value)]
    /\ view' = Render(_hass, _config, _loaded)
    /\ work' = work + 1
    /\ UNCHANGED << _config, _hass, _loaded, _loading, _entryId, form, reloads,
                    queries, server >>
    /\ Quiet
    /\ UNCHANGED paint

\* update_viz is acknowledged: the backend stored the value. The card does not
\* look at the promise.
UpdateAcknowledged(k) ==
    /\ calls[k].type = "update_viz"
    /\ calls[k].slot_id \in Ids(backend)
    /\ backend' = [ j \in 1..Len(backend) |->
                      IF backend[j].subentry_id = calls[k].slot_id
                      THEN [backend[j] EXCEPT ![calls[k].param] = calls[k].value]
                      ELSE backend[j] ]
    /\ calls' = RemoveAt(calls, k)
    /\ UNCHANGED << card, overlay, form, view, reloads, queries, provisioning,
                    nextId, work >>
    /\ Quiet
    /\ UNCHANGED paint

\* update_viz is rejected: the backend keeps the old value. The promise of lines
\* 494 and 505 is neither awaited nor given a catch, so the rejection is handled
\* by nothing in the card and goes to the runtime as an unhandled rejection.
UpdateRejected(k) ==
    /\ calls[k].type = "update_viz"
    /\ calls' = RemoveAt(calls, k)
    /\ UNCHANGED << card, overlay, form, view, reloads, queries, server, work >>
    /\ answered' = NoStr /\ ended' = NoneEnded
    /\ stale' = FALSE
    /\ UNCHANGED paint
    /\ raised' = "unhandledrejection"

\* Another client of the backend gives a record a high colour of its own, after
\* the backend stored the one an update of this card asked for.
EditedColor == <<9, 9, 9>>
BackendEdits(j) ==
    /\ \E h \in HexInputs : backend[j].color_high = _hexToRgb(h)
    /\ backend' = [backend EXCEPT ![j].color_high = EditedColor]
    /\ UNCHANGED << card, overlay, form, view, reloads, queries, calls, provisioning,
                    nextId, work >>
    /\ Quiet
    /\ UNCHANGED paint

(* ------------------------- flat-retry revision ------------------------ *)

\* The other revision of the card in the same file (lines 812-1284). Its
\* setConfig, its hass setter, the head of its _loadConfig and its
\* _deleteVisualization read line for line as the ones above (lines 824-854
\* and 926-940); its mapping keeps fewer fields and its _reloadConfig makes
\* one attempt after one delay.

\* The mapping of one wire record, lines 860-871.
FlatMapViz(viz, colorState) ==
    LET saved == SavedOf(colorState, viz.subentry_id) IN
    [ subentryId |-> viz.subentry_id,
      name       |-> IF viz.title # NoStr THEN viz.title
                     ELSE IF viz.name # NoStr THEN viz.name ELSE "Visualization",
      entities   |-> viz.entity_map,
      colorLow   |-> OrColor(saved.low, viz.color_low, DefaultColorLow),
      colorHigh  |-> OrColor(saved.high, viz.color_high, DefaultColorHigh),
      isAlert    |-> viz.renderer_type = "alert",
      mode       |-> viz.mode ]
FlatMapAll(visualizations, colorState) ==
    [ k \in 1..Len(visualizations) |-> FlatMapViz(visualizations[k], colorState) ]

\* setTimeout(r, 2000), line 884, in milliseconds.
FlatDelay == 2000

\* _reloadConfig() up to its delay, lines 882-884.
FlatNewReload(cause, id) ==
    [ pc |-> "sleep", i |-> 0, timers |-> << FlatDelay >>, seen |-> {}, cause |-> cause,
      id |-> id, preViz |-> _vizData, preLoaded |-> _loaded ]
FlatReloadBegins(cause, id) ==
    /\ _loaded' = FALSE
    /\ _loading' = FALSE
    /\ reloads' = IF FreeSlots = {} THEN Append(reloads, FlatNewReload(cause, id))
                  ELSE LET l == CHOOSE x \in FreeSlots : \A y \in FreeSlots : x <= y IN
                       [reloads EXCEPT ![l] = FlatNewReload(cause, id)]

\* A reload that waits and loads once more when its attempt left the list empty.
FlatReturn_Retries(r, outcome, viz) ==
    IF Len(viz) > 0 \/ r.i >= 1 THEN FreeSlot
    ELSE [r EXCEPT !.i = @ + 1, !.pc = "sleep", !.timers = Append(@, FlatDelay),
                   !.seen = @ \cup {outcome}]

\* After await this._loadConfig(), line 885, the function returns whatever the
\* load did.
FlatReturn(r, outcome, viz) == FreeSlot

FlatResume(owner, outcome, viz) ==
    IF owner = 0 THEN reloads
    ELSE [reloads EXCEPT ![owner] = FlatReturn(@, outcome, viz)]
FlatEnded(r, outcome) ==
    [ pc |-> "done", n |-> r.i + 1, waited |-> (r.i + 1) * FlatDelay, timers |-> r.timers,
      last |-> outcome, seen |-> r.seen \cup {outcome},
      cause |-> r.cause, id |-> r.id, preViz |-> r.preViz, preLoaded |-> r.preLoaded ]
FlatEndedBy(owner, outcome, viz) ==
    IF owner # 0 /\ FlatReturn(reloads[owner], outcome, viz).pc = "free"
    THEN FlatEnded(reloads[owner], outcome)
    ELSE NoneEnded

\* The delay of a reload elapses (line 884) and it calls _loadConfig(), line 885.
FlatBackoffElapses(l) ==
    /\ reloads[l].pc = "sleep"
    /\ LET h == LoadHead(_hass, _config, _loading, _entryId) IN
       /\ _loading' = h.loading
       /\ _entryId' = h.entryId
       /\ queries' = IF h.query THEN Append(queries, Query(l, h.entryId)) ELSE queries
       /\ reloads' = IF h.query THEN [reloads EXCEPT ![l].pc = "load"]
                     ELSE FlatResume(l, "noquery", _vizData)
       /\ ended' = IF h.query THEN NoneEnded ELSE FlatEndedBy(l, "noquery", _vizData)
    /\ UNCHANGED << _config, _hass, _loaded, _vizData, overlay, form, view,
                    calls, server, work >>
    /\ answered' = NoStr /\ raised' = NoStr
    /\ stale' = FALSE
    /\ UNCHANGED paint

\* The get_config query resolves, lines 860-873 and 877, and the reload that
\* awaited the load returns.
FlatLoadResolves(k) ==
    LET q == queries[k]
        result == Visualizations(q.entry)
        outcome == IF Len(result) > 0 THEN "nonempty" ELSE "empty" IN
    /\ _vizData' = FlatMapAll(result, _colorState)
    /\ _loaded' = TRUE
    /\ _loading' = FALSE
    /\ view' = Render(_hass, _config, TRUE)
    /\ queries' = Overtaken(queries, k)
    /\ reloads' = FlatResume(q.owner, outcome, _vizData')
    /\ ended' = FlatEndedBy(q.owner, outcome, _vizData')
    /\ UNCHANGED << _config, _hass, _entryId, overlay, form, calls, server, work >>
    /\ answered' = "resolved" /\ raised' = NoStr
    /\ stale' = q.late
    /\ UNCHANGED paint

\* The get_config query is rejected, lines 874-878.
FlatLoadRejected(k) ==
    LET q == queries[k] IN
    /\ _loading' = FALSE
    /\ queries' = RemoveAt(queries, k)
    /\ reloads' = FlatResume(q.owner, "rejected", _vizData)
    /\ ended' = FlatEndedBy(q.owner, "rejected", _vizData)
    /\ UNCHANGED << _config, _hass, _loaded, _vizData, _entryId, overlay, form,
                    view, calls, server, work >>
    /\ answered' = "rejected" /\ raised' = NoStr
    /\ stale' = FALSE
    /\ UNCHANGED paint

\* delete_viz is acknowledged: the backend dropped the record; line 936.
FlatDeleteAcknowledged(k) ==
    /\ calls[k].type = "delete_viz"
    /\ calls[k].subentry_id \in Ids(backend)
    /\ backend' = WithoutId(backend, calls[k].subentry_id)
    /\ calls' = RemoveAt(calls, k)
    /\ FlatReloadBegins("delete", calls[k].subentry_id)
    /\ UNCHANGED << _config, _hass, _vizData, _entryId, overlay, form, view,
                    queries, provisioning, nextId, work >>
    /\ Quiet
    /\ UNCHANGED paint


(* ------------------------------ rendering ----------------------------- *)

\* The state strings the normalized sensor of a record takes: "unknown", none
\* (hass holds no such entity), and percentages with one decimal.  60.0 is not
\* drawn: there the doubles of the source give 0.6 + 0.3 < 0.9 and round 229.5
\* down, which thousandths do not; on every state drawn here the two agree.
NormStates ==
    { << Letter, Letter, Letter >>, << >>,
      << 0, Dot, 0 >>, << 5, Dot, 0 >>, << 3, 0, Dot, 0 >>, << 5, 0, Dot, 0 >>,
      << 7, 0, Dot, 0 >>, << 7, 5, Dot, 0 >>, << 9, 5, Dot, 0 >>,
      << 1, 0, 0, Dot, 0 >> }
BlackStates == { "on", "off", NoStr }
EntityStates == [ normalized : NormStates, include_black : BlackStates ]

\* Wire records of the kinds the card draws: a gradient with and without
\* colours, roles and renderer type, an alert with and without a flash colour,
\* and a plain gauge.
Drawn(id, renderer_type, low, high, flash, roles) ==
    [ subentry_id |-> id, title |-> NoStr, name |-> NoStr, entity_map |-> roles,
      color_low |-> low, color_high |-> high, renderer_type |-> renderer_type,
      mode |-> IF renderer_type = "alert" THEN "alert" ELSE "system_load",
      entity_id |-> "sensor.cpu", segment_id |-> 0, num_leds |-> 30,
      update_interval |-> NoNum, flash_color |-> flash, flash_speed |-> NoNum,
      flash_style |-> NoStr ]
AllRoles == { "enabled", "normalized", "include_black" }
DrawnInputs ==
    { Drawn(1, "effect", NoColor, NoColor, NoColor, AllRoles),
      Drawn(1, "effect", <<0, 0, 255>>, <<255, 255, 0>>, NoColor, AllRoles),
      Drawn(1, "effect", <<0, 0, 0>>, <<1, 0, 0>>, NoColor, AllRoles),
      Drawn(1, "effect", <<2, 0, 0>>, <<0, 0, 0>>, NoColor, AllRoles),
      Drawn(1, "effect", <<9, 9, 9>>, <<9, 9, 9>>, NoColor, AllRoles),
      Drawn(1, "effect", <<0, 0, 255>>, <<255, 255, 0>>, NoColor, { "normalized" }),
      Drawn(1, NoStr, NoColor, <<0, 0, 255>>, NoColor, { "include_black" }),
      Drawn(1, "alert", <<0, 0, 255>>, <<255, 255, 0>>, <<0, 255, 255>>, AllRoles),
      Drawn(1, "alert", NoColor, NoColor, NoColor, { "enabled" }),
      Drawn(1, "gauge", <<0, 0, 255>>, <<255, 255, 0>>, NoColor, AllRoles) }

\* What render() draws of the records: _renderViz(viz), lines 291-323, for each.
Tuples(vizData, st) ==
    [ v \in 1..Len(vizData) |-> _renderTuples(vizData[v], st[v]) ]
Readings(vizData, st) ==
    [ v \in 1..Len(vizData) |-> _renderReading(vizData[v], st[v]) ]

\* set hass(value), lines 104-109, with a hass object in which the entities of
\* record v have the states st, while the list is shown: the setter loads
\* nothing, and Lit renders the list from the new states.
EntitiesChange(v, st) ==
    /\ _hass /\ _loaded /\ _config # ""
    /\ states' = [states EXCEPT ![v] = st]
    /\ tuples' = Tuples(_vizData, states')
    /\ reading' = Readings(_vizData, states')
    /\ view' = Render(TRUE, _config, _loaded)
    /\ Quiet
    /\ UNCHANGED << card, overlay, form, reloads, queries, calls, server, work,
                    lerped >>

\* The arguments _lerpColor is applied to: colours, and fractions below, in and
\* above [0, 1].
ColorInputs ==
    { <<0, 255, 0>>, <<255, 0, 0>>, <<0, 0, 0>>, <<1, 0, 0>>, <<0, 0, 255>>,
      <<255, 255, 0>> }
FractionInputs == { 0 - 200, 0 - 1, 0, 1, 50, 300, 499, 500, 700, 750, 999, One, One + 1, One + 300 }
NoLerp == [a |-> NoColor, b |-> NoColor, t |-> 0, color |-> NoColor]

\* One call of _lerpColor(a, b, t), lines 523-530.
Lerp(a, b, t) ==
    /\ lerped' = [a |-> a, b |-> b, t |-> t, color |-> _lerpColor(a, b, t)]
    /\ Quiet
    /\ UNCHANGED << card, overlay, form, view, reloads, queries, calls, server,
                    work, states, tuples, reading >>

(* --------------------------- specification ---------------------------- *)

\* The card as constructed; the backend holds either nothing or the stored records.
Init ==
    /\ _config = "" /\ _hass = FALSE /\ _loaded = FALSE /\ _loading = FALSE
    /\ _vizData = <<>> /\ _entryId = NoStr /\ _colorState = <<>> /\ intent = <<>>
    /\ _showCreateForm = FALSE /\ _createMode = NoStr /\ _createData = NoData
    /\ view = "blank"
    /\ reloads = <<>> /\ queries = <<>> /\ calls = <<>>
    /\ backend \in {<<>>, Stored} /\ provisioning = <<>> /\ nextId = 3
    /\ work = 0 /\ answered = NoStr /\ ended = NoneEnded /\ raised = NoStr
    /\ stale = FALSE
    /\ states = <<>> /\ tuples = <<>> /\ reading = <<>> /\ lerped = NoLerp

\* The steps of one run, the operator's mutations within the budget.
Within(cost) == work + cost <= MaxWork
Next ==
    \/ set_hass
    \/ \E c \in ConfigInputs : setConfig(c)
    \/ \E l \in 1..Len(reloads) : BackoffElapses(l)
    \/ \E k \in 1..Len(queries) : LoadResolves(k)
    \/ \E k \in 1..Len(queries) : LoadRejected(k)
    \/ Within(2) /\ OpenCreateForm
    \/ CloseCreateForm
    \/ \E m \in ModeInputs : ChooseMode(m)
    \/ \E e \in EntityInputs : FormChanged(e)
    \/ BackToModes
    \/ (CreateReady => Within(2)) /\ _createVisualization
    \/ \E k \in 1..Len(calls) : CreateAcknowledged(k)
    \/ Materialize
    \/ \E v \in 1..Len(_vizData), confirmed \in BOOLEAN :
          (confirmed => Within(2)) /\ _deleteVisualization(v, confirmed)
    \/ \E k \in 1..Len(calls) : DeleteAcknowledged(k)
    \/ \E k \in 1..Len(calls) : MutationRejected(k)
    \/ \E v \in 1..Len(_vizData), h \in LowHexInputs :
          Within(1) /\ _updateColor(v, "color_low", h)
    \/ \E v \in 1..Len(_vizData), h \in HexInputs :
          Within(1) /\ _updateColor(v, "color_high", h)
    \/ \E v \in 1..Len(_vizData), h \in HexInputs :
          Within(1) /\ _updateWsParam(v, "flash_color", _hexToRgb(h), "flashColor")
    \/ \E v \in 1..Len(_vizData), s \in SpeedInputs :
          Within(1) /\ _updateWsParam(v, "flash_speed", s, "flashSpeed")
    \/ \E v \in 1..Len(_vizData), s \in StyleInputs :
          /\ Within(1) /\ s # _vizData[v].flashStyle
          /\ _updateWsParam(v, "flash_style", s, "flashStyle")
    \/ \E k \in 1..Len(calls) : UpdateAcknowledged(k)
    \/ \E k \in 1..Len(calls) : UpdateRejected(k)
    \/ \E j \in 1..Len(backend) : BackendEdits(j)

Spec == Init /\ [][Next]_vars

\* The scheduling the runtime and the transport give a reload: a timer that was
\* set fires, and a query that was sent is answered, one way or the other.
SlotBound == MaxWork \div 2
Answered(l) ==
    \E k \in 1..Len(queries) :
        queries[k].owner = l /\ (LoadResolves(k) \/ LoadRejected(k))
FairSpec ==
    /\ Spec
    /\ \A l \in 1..SlotBound : WF_vars(l <= Len(reloads) /\ BackoffElapses(l))
    /\ \A l \in 1..SlotBound : WF_vars(Answered(l))

\* Runs of two mutations, creates or confirmed deletes, that the backend
\* acknowledges, with no update: the runs in which two reloads meet.
Twice == work + 2 <= 2 * 2
RaceNext ==
    \/ set_hass
    \/ \E c \in ConfigInputs : setConfig(c)
    \/ \E l \in 1..Len(reloads) : BackoffElapses(l)
    \/ \E k \in 1..Len(queries) : LoadResolves(k)
    \/ \E k \in 1..Len(queries) : LoadRejected(k)
    \/ Twice /\ OpenCreateForm
    \/ \E m \in ModeInputs : ChooseMode(m)
    \/ \E e \in EntityInputs : FormChanged(e)
    \/ (CreateReady => Twice) /\ _createVisualization
    \/ \E k \in 1..Len(calls) : CreateAcknowledged(k)
    \/ Materialize
    \/ \E v \in 1..Len(_vizData) : Twice /\ _deleteVisualization(v, TRUE)
    \/ \E k \in 1..Len(calls) : DeleteAcknowledged(k)
RaceSpec == Init /\ [][RaceNext]_vars

\* Runs in which the dashboard reconfigures the card for other devices while
\* loads are under way, with one confirmed delete at most.
Once == work + 2 <= 2
SwitchNext ==
    \/ set_hass
    \/ \E c \in DeviceInputs : setConfig(c)
    \/ \E l \in 1..Len(reloads) : BackoffElapses(l)
    \/ \E k \in 1..Len(queries) : LoadResolves(k)
    \/ \E k \in 1..Len(queries) : LoadRejected(k)
    \/ \E v \in 1..Len(_vizData) : Once /\ _deleteVisualization(v, TRUE)
    \/ \E k \in 1..Len(calls) : DeleteAcknowledged(k)
SwitchSpec == Init /\ [][SwitchNext]_vars

\* The flat-retry revision: loads, and two confirmed deletes with their reloads.
FlatNext ==
    \/ set_hass
    \/ \E c \in ConfigInputs : setConfig(c)
    \/ \E l \in 1..Len(reloads) : FlatBackoffElapses(l)
    \/ \E k \in 1..Len(queries) : FlatLoadResolves(k)
    \/ \E k \in 1..Len(queries) : FlatLoadRejected(k)
    \/ \E v \in 1..Len(_vizData) : Twice /\ _deleteVisualization(v, TRUE)
    \/ \E k \in 1..Len(calls) : FlatDeleteAcknowledged(k)
FlatSpec == Init /\ [][FlatNext]_vars

\* Entity snapshots keep arriving, and of the get_config queries sent again and
\* again one is answered with a result.
HealSpec ==
    /\ Spec
    /\ WF_vars(set_hass)
    /\ SF_vars(\E k \in 1..Len(queries) : LoadResolves(k))

\* The list as a load drew it, one record held, while hass holds no state of
\* the record's entities yet; from then on the entity states change.
RenderInit ==
    /\ backend \in { << w >> : w \in DrawnInputs }
    /\ provisioning = <<>> /\ nextId = 3
    /\ _config = "dev1" /\ _hass = TRUE /\ _loaded = TRUE /\ _loading = FALSE
    /\ _entryId = "entry1" /\ _colorState = <<>> /\ intent = <<>>
    /\ _vizData = MapAll(backend, <<>>)
    /\ _showCreateForm = FALSE /\ _createMode = NoStr /\ _createData = NoData
    /\ view = "list"
    /\ reloads = <<>> /\ queries = <<>> /\ calls = <<>>
    /\ work = 0 /\ answered = NoStr /\ ended = NoneEnded /\ raised = NoStr
    /\ stale = FALSE
    /\ states = [ v \in 1..Len(backend) |-> NoStates ]
    /\ tuples = Tuples(_vizData, states)
    /\ reading = Readings(_vizData, states)
    /\ lerped = NoLerp
RenderNext ==
    \E v \in 1..Len(_vizData), st \in EntityStates : EntitiesChange(v, st)
RenderSpec == RenderInit /\ [][RenderNext]_vars

\* _lerpColor on its own, applied to arguments of every kind.
LerpNext ==
    \E a, b \in ColorInputs, t \in FractionInputs : Lerp(a, b, t)
LerpSpec == Init /\ [][LerpNext]_vars


(* ------------------------------- claims -------------------------------- *)

Running == { l \in 1..Len(reloads) : reloads[l].pc # "free" }
Owned(l) == { k \in 1..Len(queries) : queries[k].owner = l }

\* C1. When the reload begun by an acknowledged create returns, the held list
\* contains the created record, provided the backend starts returning the record
\* before the fifth attempt is answered: it returns it already, or it has accepted
\* it and the reload returned before a fifth attempt. As stated, also for a device
\* that had records before the create; here for the reloads whose every attempt
\* was answered with a list.
C1_ReloadShowsCreated ==
    ( /\ ended.pc = "done" /\ ended.cause = "create"
      /\ ended.seen \subseteq {"empty", "nonempty"}
      /\ \/ ended.id \in Ids(backend)
         \/ ended.id \in Ids(provisioning) /\ ended.n < MaxAttempts )
    => ended.id \in { _vizData[v].subentryId : v \in 1..Len(_vizData) }

\* C2. A reload makes at most MaxAttempts attempts and goes on to the next one
\* exactly when the last one did not return a non-empty result: it returns only
\* after a non-empty result or after the fifth attempt, and it never goes on after
\* a non-empty result.
C2_RetryUntilNonempty ==
    /\ ended.pc = "done" =>
          /\ ended.n <= MaxAttempts
          /\ ended.last = "nonempty" \/ ended.n = MaxAttempts
    /\ \A l \in Running : reloads[l].i < MaxAttempts /\ "nonempty" \notin reloads[l].seen

\* C3. A reload whose every attempt was answered with an empty list returns only
\* after MaxAttempts attempts, throws nothing, and leaves the card loaded with an
\* empty list.
C3_EmptyBackend ==
    (ended.pc = "done" /\ ended.seen = {"empty"})
    => /\ ended.n = MaxAttempts
       /\ raised = NoStr
       /\ _loaded /\ _vizData = <<>>
C3_Witness == ended.pc = "done" /\ ended.seen = {"empty"} /\ ended.cause = "create"


\* C4. Every reload returns, after at most MaxAttempts attempts, when its backoff
\* delays elapse and its queries are answered.
C4_ReloadTerminates ==
    /\ [](\A l \in Running : reloads[l].i < MaxAttempts)
    /\ [](ended.n <= MaxAttempts)
    /\ \A l \in 1..SlotBound : (l \in Running) ~> (l \notin Running)
C4_Witness == ended.pc = "done" /\ ended.n = MaxAttempts /\ Running = {}


\* C5. When every query of a reload was rejected, the reload returns without
\* raising and the card holds what it held before the reload: the same record
\* list and the same loaded flag.
C5_RejectedReloadKeepsState ==
    (ended.pc = "done" /\ ended.seen = {"rejected"})
    => /\ raised = NoStr
       /\ _vizData = ended.preViz
       /\ _loaded = ended.preLoaded

\* C6. The step in which a get_config query is rejected raises nothing, leaves
\* the held list and the loaded flag as they were, and releases the loading guard.
C6_RejectedLoad ==
    [][ answered' = "rejected"
        => /\ raised' = NoStr
           /\ _vizData' = _vizData
           /\ _loaded' = _loaded
           /\ ~_loading' ]_vars
C6_Witness == answered = "rejected" /\ ~_loaded /\ ~_loading /\ _vizData = <<>>

\* C7. A reload never has two of its own queries in flight, and has one only
\* while it awaits the load of its current attempt.
C7_AttemptsSequential ==
    \A l \in 1..Len(reloads) :
        /\ Cardinality(Owned(l)) <= 1
        /\ reloads[l].pc # "load" => Owned(l) = {}
C7_Witness ==
    \E l \in 1..Len(reloads) :
        reloads[l].pc = "load" /\ reloads[l].i >= 1 /\ Cardinality(Owned(l)) = 1

\* The field of a drawn record that holds a parameter of update_viz, and the
\* field of an overlay entry that holds it.
LocalKey(param) ==
    CASE param = "color_low" -> "colorLow"
      [] param = "color_high" -> "colorHigh"
      [] param = "flash_color" -> "flashColor"
      [] param = "flash_speed" -> "flashSpeed"
      [] param = "flash_style" -> "flashStyle"
OverlayParam(f) ==
    CASE f = "low" -> "color_low"
      [] f = "high" -> "color_high"
      [] f = "flashColor" -> "flash_color"
Sent(slot_id, param) ==
    /\ Len(calls') = Len(calls) + 1
    /\ calls'[Len(calls')].type = "update_viz"
    /\ calls'[Len(calls')].slot_id = slot_id
    /\ calls'[Len(calls')].param = param

\* C8. In the step that sends an update_viz message, the held record of that id
\* has the field set to the value sent, for each of the five parameters.
C8_UpdateSetsField ==
    [][ \A v \in 1..Len(_vizData),
           p \in {"color_low", "color_high", "flash_color", "flash_speed", "flash_style"} :
           Sent(_vizData[v].subentryId, p)
           => /\ Len(_vizData') = Len(_vizData)
              /\ _vizData'[v][LocalKey(p)] = calls'[Len(calls')].value ]_vars
C8_Witness ==
    \E k \in 1..Len(calls), v \in 1..Len(_vizData) :
        /\ calls[k].type = "update_viz" /\ calls[k].param = "flash_speed"
        /\ _vizData[v].subentryId = calls[k].slot_id
        /\ _vizData[v].flashSpeed = calls[k].value
        /\ calls[k].slot_id \in Ids(backend)
        /\ \A j \in 1..Len(backend) :
              backend[j].subentry_id = calls[k].slot_id
              => backend[j].flash_speed # calls[k].value

\* C9. After a resolved load, every held record has, in each field the operator
\* updated, the value last asked for, whatever the backend returned.
C9_LoadKeepsUpdates ==
    answered = "resolved"
    => \A v \in 1..Len(_vizData) :
          LET id == _vizData[v].subentryId IN
          id \in DOMAIN intent
          => \A p \in DOMAIN intent[id] : _vizData[v][LocalKey(p)] = intent[id][p]

\* C10. A written overlay entry keeps its value in every step, except a step
\* that sends an update of the same field of the same record.
C10_OverlaySticky ==
    [][ \A id \in DOMAIN _colorState, f \in {"low", "high", "flashColor"} :
           _colorState[id][f] # NoColor
           => \/ Sent(id, OverlayParam(f))
              \/ id \in DOMAIN _colorState' /\ _colorState'[id][f] = _colorState[id][f] ]_vars
C10_Witness ==
    /\ answered = "resolved"
    /\ \E id \in DOMAIN _colorState :
          /\ _colorState[id].low # NoColor
          /\ \E v \in 1..Len(_vizData) :
                _vizData[v].subentryId = id /\ _vizData[v].colorLow = _colorState[id].low


\* C11. When a get_config query resolves while the overlay holds a high colour
\* for a record, no update of it is in flight and the backend holds a colour
\* another client gave the record since, the loaded record shows the backend's
\* colour and the overlay field is cleared.
C11_LoadSupersedesOverlay ==
    [][ answered' = "resolved"
        => \A j \in 1..Len(backend) :
              LET id == backend[j].subentry_id IN
              ( /\ id \in DOMAIN _colorState
                /\ _colorState[id].high # NoColor
                /\ backend[j].color_high = EditedColor
                /\ \A k \in 1..Len(calls) :
                      ~(calls[k].type = "update_viz" /\ calls[k].slot_id = id) )
              => /\ _vizData'[j].colorHigh = EditedColor
                 /\ _colorState'[id].high = NoColor ]_vars


\* Whether the overlay holds a value for a parameter of update_viz.
OverlayHolds(colorState, id, param, value) ==
    /\ id \in DOMAIN colorState
    /\ CASE param = "color_low" -> colorState[id].low = value
         [] param = "color_high" -> colorState[id].high = value
         [] param = "flash_color" -> colorState[id].flashColor = value
         [] OTHER -> FALSE
UpdateParams == {"color_low", "color_high", "flash_color", "flash_speed", "flash_style"}
InFlightOther(id, param, value) ==
    \E k \in 1..Len(calls) :
        /\ calls[k].type = "update_viz" /\ calls[k].slot_id = id
        /\ calls[k].param = param /\ calls[k].value # value

\* C12. An update of a field issued while an update of the same field of the same
\* record, with another value, is in flight is sent at once, behind nothing, and leaves the overlay and
\* the held record with its value; the answers to the two messages, in whatever
\* order, change neither.
C12_SecondUpdateWins ==
    [][ /\ \A v \in 1..Len(_vizData), p \in UpdateParams :
             LET id == _vizData[v].subentryId IN
             ( /\ Sent(id, p)
               /\ InFlightOther(id, p, calls'[Len(calls')].value) )
             => /\ calls' = Append(calls, calls'[Len(calls')])
                /\ _vizData'[v][LocalKey(p)] = calls'[Len(calls')].value
                /\ OverlayHolds(_colorState', id, p, calls'[Len(calls')].value)
        /\ (\E k \in 1..Len(calls) : UpdateAcknowledged(k) \/ UpdateRejected(k))
           => UNCHANGED << _colorState, _vizData >> ]_vars


\* C13. The step in which an update_viz call is rejected leaves nothing uncaught,
\* and leaves the overlay and the held records as the update set them.
C13_UpdateRejectionCaught ==
    [][ (\E k \in 1..Len(calls) : UpdateRejected(k))
        => /\ raised' = NoStr
           /\ UNCHANGED << _colorState, _vizData >> ]_vars


\* C14. The step in which a create_viz or delete_viz call is rejected raises
\* nothing, starts no reload, and leaves the held list, the loaded flag and the
\* create form (shown, mode, data) as they were.
C14_MutationRejected ==
    [][ (\E k \in 1..Len(calls) : calls[k].type \in {"create_viz", "delete_viz"}
                                  /\ calls' = RemoveAt(calls, k)
                                  /\ server' = server)
        => /\ raised' = NoStr
           /\ reloads' = reloads
           /\ UNCHANGED << _vizData, _loaded, _showCreateForm, _createMode, _createData >> ]_vars
C14_Witness ==
    /\ calls = <<>> /\ work = 2 /\ Running = {}
    /\ _showCreateForm /\ _createMode = "alert" /\ _createData.entity_id = "sensor.cpu"
    /\ _loaded /\ provisioning = <<>> /\ nextId = 3 /\ Len(_vizData) = Len(backend)


\* C15. A create_viz message is sent only in a step that begins with the entry
\* id known, a mode chosen and a source entity in the create data; a click on
\* "Create" with one of them missing sends nothing and changes nothing.
C15_CreateNeedsAll ==
    [][ /\ (Len(calls') > Len(calls) /\ calls'[Len(calls')].type = "create_viz")
           => /\ _entryId # NoStr /\ _createMode # NoStr
              /\ _createData.entity_id # NoStr
              /\ calls'[Len(calls')].params.entity_id = _createData.entity_id
        /\ ( /\ _createVisualization
             /\ (_entryId = NoStr \/ _createMode = NoStr \/ _createData.entity_id = NoStr) )
           => UNCHANGED << card, form, overlay, view, reloads, queries, calls, server >> ]_vars
C15_Witness ==
    \E k \in 1..Len(calls) :
        /\ calls[k].type = "create_viz" /\ calls[k].entry_id = "entry1"
        /\ calls[k].mode = "alert" /\ calls[k].params.entity_id = "sensor.cpu"


\* C16. A delete whose confirmation the operator declines sends nothing, starts
\* no reload and changes nothing; a delete_viz message is sent only by a delete
\* whose confirmation was accepted.
C16_DeclinedDelete ==
    [][ /\ answered' = "declined"
           => UNCHANGED << card, form, overlay, view, reloads, queries, calls, server >>
        /\ (Len(calls') > Len(calls) /\ calls'[Len(calls')].type = "delete_viz")
           => /\ answered' # "declined"
              /\ \E v \in 1..Len(_vizData) :
                    /\ _deleteVisualization(v, TRUE)
                    /\ calls'[Len(calls')].subentry_id = _vizData[v].subentryId ]_vars
C16_Witness == answered = "declined" /\ calls = <<>> /\ Running = {} /\ view = "list"


\* The step in which the backend acknowledges a create_viz or delete_viz call.
Acknowledged ==
    \E k \in 1..Len(calls) :
        /\ calls[k].type \in {"create_viz", "delete_viz"}
        /\ calls' = RemoveAt(calls, k)
        /\ server' # server
Begun == { l \in 1..Len(reloads') :
             /\ reloads'[l].pc = "sleep" /\ reloads'[l].i = 0
             /\ l \in 1..Len(reloads) => reloads[l].pc = "free" }

\* C17. The step that acknowledges a create or a delete begins exactly one
\* _reloadConfig invocation, and no other step begins one.
C17_OneReloadPerAck ==
    [][ /\ Acknowledged => Cardinality(Begun) = 1
        /\ Begun # {} => Acknowledged
        /\ Cardinality(Running') > Cardinality(Running) => Acknowledged ]_vars
C17_Witness ==
    /\ calls = <<>> /\ queries = <<>> /\ work = 2
    /\ \E l \in Running :
          /\ reloads[l].pc = "sleep" /\ reloads[l].i = 0 /\ reloads[l].cause = "delete"
          /\ reloads[l].id \notin Ids(backend)
          /\ Running = {l}


C19_NoCancellation ==
    [][ \A l \in Running :
           /\ (set_hass \/ Acknowledged) => reloads'[l] = reloads[l]
           /\ l \in Running'
              => /\ reloads'[l].cause = reloads[l].cause /\ reloads'[l].id = reloads[l].id
                 /\ reloads'[l].i >= reloads[l].i
           /\ l \notin Running'
              => /\ ended'.pc = "done" /\ ended'.n = reloads[l].i + 1
                 /\ ended'.cause = reloads[l].cause /\ ended'.id = reloads[l].id
                 /\ Len(_vizData') > 0 \/ ended'.n = MaxAttempts ]_vars
C19_Witness == stale /\ answered = "resolved" /\ _loaded

\* C20. A create or delete acknowledged while reloads are running adds a reload
\* to them and leaves them as they are, and the backoff delay that elapses for
\* one reload moves no other.
C20_ReloadsStack ==
    [][ /\ (Acknowledged /\ Running # {})
           => /\ Cardinality(Running') = Cardinality(Running) + 1
              /\ \A l \in Running : l \in Running' /\ reloads'[l] = reloads[l]
        /\ \A l \in 1..Len(reloads) :
              BackoffElapses(l)
              => \A m \in 1..Len(reloads) \ {l} : reloads'[m] = reloads[m] ]_vars
C20_Witness ==
    /\ Cardinality(Running) = 2
    /\ \A l \in Running : reloads[l].cause = "create"
    /\ \E l, m \in Running : reloads[l].i = 2 /\ reloads[m].i = 0 /\ reloads[m].pc = "load"

\* The state strings "unknown" and "75.0".
Unknown == << Letter, Letter, Letter >>
Reads75 == << 7, 5, Dot, 0 >>

\* C21: _computeTuples returns exactly one tuple for an alert record and for a
\* record whose renderer type is not "effect", and exactly three tuples for an
\* effect record, whatever the normalized state (unknown included) and the
\* include_black state are.
C21_TupleCount ==
    \A v \in 1..Len(tuples) :
        Len(tuples[v]) =
            IF _vizData[v].isAlert \/ _vizData[v].rendererType # "effect" THEN 1 ELSE 3

\* A plain gauge drawn with a reading and include_black on: one tuple.
C21_Witness ==
    \E v \in 1..Len(tuples) :
        /\ _vizData[v].rendererType = "gauge"
        /\ states[v] = [normalized |-> Reads75, include_black |-> "on"]
        /\ Len(tuples[v]) = 1

\* The records drawn, the fraction t of record v (0 without a reading), and the
\* records whose include_black entity is bound and on.
Shown == 1..Len(tuples)
T(v) == Fraction(NormPct(_vizData[v], states[v]))
Effect(v) == ~_vizData[v].isAlert /\ _vizData[v].rendererType = "effect"
BlackOn(v) == "include_black" \in _vizData[v].entities /\ states[v].include_black = "on"
Tuple(label, color) == [label |-> label, color |-> color]

\* C22: for an effect record with include_black on, _computeTuples returns
\* Primary = lerp(low, high, t), Secondary = (0, 0, 0) and Tertiary =
\* lerp(low, high, min(1, t + 0.30)): black is the middle tuple for every t.
C22_BlackInTheMiddle ==
    \A v \in Shown :
        Effect(v) /\ BlackOn(v) =>
            LET low == _vizData[v].colorLow  high == _vizData[v].colorHigh IN
            tuples[v] = << Tuple("Primary", _lerpColor(low, high, T(v))),
                           Tuple("Secondary", <<0, 0, 0>>),
                           Tuple("Tertiary", _lerpColor(low, high, Min(One, T(v) + 300))) >>

\* The default gradient at 75.0 % with black on: (191, 64, 0), black, and the
\* high colour, which min(1, 0.75 + 0.30) reaches.
C22_Witness ==
    \E v \in Shown :
        /\ Effect(v) /\ BlackOn(v) /\ states[v].normalized = Reads75
        /\ tuples[v] = << Tuple("Primary", <<191, 64, 0>>),
                          Tuple("Secondary", <<0, 0, 0>>),
                          Tuple("Tertiary", <<255, 0, 0>>) >>

\* C23: for an effect record with include_black not on, _computeTuples returns
\* Primary = lerp(low, high, t), Secondary = lerp(low, high, max(0, t - 0.30))
\* and Tertiary = lerp(low, high, min(1, t + 0.30)); for t <= 0.30 Secondary is
\* colorLow itself, and for t >= 0.70 Tertiary is colorHigh itself.
C23_SpreadClamps ==
    \A v \in Shown :
        Effect(v) /\ ~BlackOn(v) =>
            LET low == _vizData[v].colorLow  high == _vizData[v].colorHigh IN
            /\ tuples[v] = << Tuple("Primary", _lerpColor(low, high, T(v))),
                              Tuple("Secondary", _lerpColor(low, high, Max(0, T(v) - 300))),
                              Tuple("Tertiary", _lerpColor(low, high, Min(One, T(v) + 300))) >>
            /\ T(v) <= 300 => tuples[v][2].color = low
            /\ T(v) >= 700 => tuples[v][3].color = high

\* Blue to yellow at 5.0 % (t = 0.05) with black off: Secondary is blue, the low
\* colour, while Primary and Tertiary have left it.
C23_Witness ==
    \E v \in Shown :
        /\ Effect(v) /\ states[v] = [normalized |-> << 5, Dot, 0 >>, include_black |-> "off"]
        /\ tuples[v] = << Tuple("Primary", <<13, 13, 242>>),
                          Tuple("Secondary", <<0, 0, 255>>),
                          Tuple("Tertiary", <<89, 89, 166>>) >>

\* C24: _lerpColor clamps t and is exact at the ends: for t <= 0 the result is
\* the low colour and for t >= 1 it is the high colour, channel for channel.
C24_LerpEndpoints ==
    lerped # NoLerp =>
        /\ lerped.t <= 0 => lerped.color = lerped.a
        /\ lerped.t >= One => lerped.color = lerped.b

\* Green to red at t = 1.3: red.
C24_Witness ==
    /\ lerped.a = <<0, 255, 0>> /\ lerped.b = <<255, 0, 0>> /\ lerped.t = One + 300
    /\ lerped.color = <<255, 0, 0>>

\* C25: _lerpColor is monotonic in t after rounding: of two calls with the same
\* colours and fractions t1 <= t2 in [0, 1], the second gives no less in every
\* channel c with high[c] >= low[c].
C25_LerpMonotonic ==
    [][ ( /\ lerped # NoLerp
          /\ lerped'.a = lerped.a /\ lerped'.b = lerped.b
          /\ 0 <= lerped.t /\ lerped.t <= lerped'.t /\ lerped'.t <= One )
        => \A c \in 1..3 :
               lerped.b[c] >= lerped.a[c] => lerped.color[c] <= lerped'.color[c] ]_vars

\* A channel that goes from 0 to 1 has been rounded up at t = 0.5.
C25_Witness ==
    /\ lerped.a = <<0, 0, 0>> /\ lerped.b = <<1, 0, 0>> /\ lerped.t = 500
    /\ lerped.color = <<1, 0, 0>>

\* C26: for an alert record _computeTuples returns the one tuple {Flash,
\* flashColor}, whatever the normalized state, the gradient colours and the
\* include_black state are.
C26_AlertIsFlash ==
    \A v \in Shown :
        _vizData[v].isAlert => tuples[v] = << Tuple("Flash", _vizData[v].flashColor) >>

\* An alert that has gradient colours, a reading of 75.0 % and include_black on:
\* one tuple, in its flash colour.
C26_Witness ==
    \E v \in Shown :
        /\ _vizData[v].isAlert
        /\ _vizData[v].colorLow = <<0, 0, 255>> /\ _vizData[v].colorHigh = <<255, 255, 0>>
        /\ states[v] = [normalized |-> Reads75, include_black |-> "on"]
        /\ tuples[v] = << Tuple("Flash", <<0, 255, 255>>) >>

\* C27: for a record that is no alert the first tuple is lerp(colorLow,
\* colorHigh, p / 100) for the normalized percentage p, and colorLow (t = 0)
\* when the percentage is unknown; at p = 75 the default gradient, (0, 255, 0)
\* to (255, 0, 0), gives (191, 64, 0).
C27_PrimaryColor ==
    \A v \in Shown :
        ~_vizData[v].isAlert =>
            LET low  == _vizData[v].colorLow
                high == _vizData[v].colorHigh
                p    == NormPct(_vizData[v], states[v])
            IN /\ p # Null => tuples[v][1].color = _lerpColor(low, high, (p.val * One) \div 1000)
               /\ p = Null => tuples[v][1].color = low
               /\ ( /\ p = Number(750)
                    /\ low = <<0, 255, 0>> /\ high = <<255, 0, 0>> )
                  => tuples[v][1].color = <<191, 64, 0>>

\* The default gradient at 75.0 % with include_black off.
C27_Witness ==
    \E v \in Shown :
        /\ Effect(v) /\ states[v] = [normalized |-> Reads75, include_black |-> "off"]
        /\ _vizData[v].colorLow = <<0, 255, 0>> /\ _vizData[v].colorHigh = <<255, 0, 0>>
        /\ tuples[v][1] = Tuple("Primary", <<191, 64, 0>>)

\* The tuples of record v are all of one colour.
OneColor(v) ==
    \A j \in 1..Len(tuples[v]) : tuples[v][j].color = tuples[v][1].color

\* Some channel of the two colours differs by n or more.
Apart(low, high, n) ==
    \E c \in 1..3 : high[c] - low[c] >= n \/ low[c] - high[c] >= n

\* C28: for an effect record with include_black not on and colorLow different
\* from colorHigh, the three tuples are never all the same colour, for any
\* reading t in [0, 1], the edges t = 0 and t = 1 included.
C28_SpreadKeepsStops ==
    \A v \in Shown :
        ( /\ Effect(v) /\ ~BlackOn(v)
          /\ NormPct(_vizData[v], states[v]) # Null
          /\ _vizData[v].colorLow # _vizData[v].colorHigh ) => ~OneColor(v)

\* C28, amended: the same for colours that differ by 2 or more in some channel.
C28_SpreadKeepsDistant ==
    \A v \in Shown :
        ( /\ Effect(v) /\ ~BlackOn(v)
          /\ Apart(_vizData[v].colorLow, _vizData[v].colorHigh, 2) ) => ~OneColor(v)

\* Colours two steps apart at t = 0: the low clamp holds Primary and Secondary
\* at the low colour, and Tertiary is one step away.
C28_Witness ==
    \E v \in Shown :
        /\ Effect(v) /\ states[v] = [normalized |-> << 0, Dot, 0 >>, include_black |-> "off"]
        /\ tuples[v] = << Tuple("Primary", <<2, 0, 0>>),
                          Tuple("Secondary", <<2, 0, 0>>),
                          Tuple("Tertiary", <<1, 0, 0>>) >>

\* The states of a normalized sensor that are numbers.
Numeric(s) == s \in NormStates \ { Unknown, << >> }

C30_WorstCaseWait ==
    (ended.pc = "done" /\ ended.n = MaxAttempts) =>
        (9500 <= ended.waited /\ ended.waited <= 10500)

\* C30, amended: it has awaited 12.5 seconds, and no reload awaits more.
C30_WorstCaseWaitIs12500 ==
    /\ (ended.pc = "done" /\ ended.n = MaxAttempts) => ended.waited = 12500
    /\ ended.pc = "done" => ended.waited <= 12500

\* A reload returns from its fifth attempt.
C30_Witness == ended.pc = "done" /\ ended.n = MaxAttempts /\ ended.waited = 12500


\* C31. At most one get_config query is in flight at any time, whoever issued
\* it (a first load, a load a hass assignment started, or any reload), and
\* _loading is set exactly while a query is in flight.
C31_OneQueryInFlight ==
    /\ Len(queries) <= 1
    /\ _loading <=> queries # <<>>


\* C32. While _loaded is set the held list is the answer to a get_config query
\* for the config entry of the device the card is configured for: the answer a
\* load installs is the answer to a query for that entry, also after setConfig
\* named another device.
Current == IF _config \in KnownDevices /\ ConfigEntries(_config) # <<>>
           THEN ConfigEntries(_config)[1] ELSE NoStr
C32_LoadedIsCurrentDevice ==
    [][ \A k \in 1..Len(queries) :
           LoadResolves(k) => queries[k].entry = Current ]_vars


\* C33. From the acknowledgment of a mutation until its reload returns, every
\* get_config query is sent by an attempt of the reload, when the backoff of
\* that attempt has elapsed; a hass assignment during a backoff sends none.
C33_OnlyReloadQueries ==
    [][ Running # {} /\ Len(queries') > Len(queries)
        => queries'[Len(queries')].owner \in Running ]_vars


\* C34. A reload awaits a delay before each of its attempts, the first
\* included, and the delay before attempt i (0 to 4) is 1500 + 500 i ms: 1.5,
\* 2.0, 2.5, 3.0 and 3.5 s, in that order.
Backoffs == << 1500, 2000, 2500, 3000, 3500 >>
C34_EscalatingBackoff ==
    /\ \A l \in Running :
          /\ Len(reloads[l].timers) = reloads[l].i + 1
          /\ reloads[l].timers = SubSeq(Backoffs, 1, reloads[l].i + 1)
    /\ ended.pc = "done" => ended.timers = SubSeq(Backoffs, 1, ended.n)
C34_Witness ==
    \E l \in Running :
        /\ reloads[l].pc = "load" /\ reloads[l].i = MaxAttempts - 1
        /\ reloads[l].timers = << 1500, 2000, 2500, 3000, 3500 >>


\* C35. A hass assignment starts a load only while the card is not loaded: once
\* a load has succeeded, hass assignments send no get_config query (and leave
\* the guard, the flag and the list alone) until setConfig names another
\* device or a reload begins, which clear the flag; every query that no reload
\* owns was sent while the card was not loaded.
C35_TicksLoadOnlyUnloaded ==
    [][ /\ (_loaded /\ set_hass)
           => UNCHANGED << queries, _loading, _loaded, _vizData >>
        /\ (Len(queries') > Len(queries) /\ queries'[Len(queries')].owner = 0)
           => ~_loaded ]_vars
C35_Witness ==
    /\ _loaded /\ _hass /\ view = "list" /\ _config = "dev1" /\ Len(_vizData) > 0
    /\ queries = <<>> /\ ~_loading /\ Running = {} /\ calls = <<>>


\* C36. setConfig with a config that has no device_id throws and changes
\* nothing of the card; with a device_id other than the current one it clears
\* the held list and the loaded flag; with the current device_id it leaves the
\* held list and the loaded flag as they are.
C36_SetConfig ==
    [][ \A d \in DeviceInputs :
           setConfig(d)
           => IF d = ""
              THEN /\ raised' = "setConfig"
                   /\ UNCHANGED << card, overlay, form, view, reloads, queries, calls >>
              ELSE IF d # _config
              THEN _config' = d /\ _vizData' = <<>> /\ ~_loaded' /\ raised' = NoStr
              ELSE UNCHANGED << _config, _vizData, _loaded >> /\ raised' = NoStr ]_vars
C36_Witness ==
    /\ raised = "setConfig" /\ _config = "dev2" /\ ~_loaded /\ _vizData = <<>>
    /\ _entryId = "entry1" /\ Len(queries) = 1 /\ queries[1].entry = "entry1"


\* C37. A load for a device_id the device registry does not hold, or whose
\* device has no config entry, sends no get_config query, leaves the held list
\* and the loaded flag (and _entryId) as they are, and returns with the guard
\* released: _loading is after the load what it was before it, so a load that
\* took the guard has released it. The loads are the ones a hass assignment
\* and an attempt of a reload start.
NoEntry == _config # "" /\ Current = NoStr
C37_NoEntryNoQuery ==
    [][ (NoEntry /\ (set_hass \/ \E l \in 1..Len(reloads) : BackoffElapses(l)))
        => /\ queries' = queries
           /\ UNCHANGED << _vizData, _loaded, _entryId >>
           /\ _loading' = _loading ]_vars
C37_Witness ==
    /\ _config \in {"ghost", "bare"} /\ _hass /\ ~_loading /\ ~_loaded /\ queries = <<>>
    /\ ended.pc = "done" /\ ended.n = MaxAttempts /\ ended.seen = {"noquery"}


\* C38. A load that succeeds replaces the held list by one record per wire
\* record of the answer, in the answer's order; each colour field is the
\* overlay's value if the overlay holds one, else the backend's, else the
\* default (colorLow green, colorHigh red, flashColor red); a field absent
\* from the wire takes its default: segment 0, 30 LEDs, update interval 0.5 s,
\* flash speed 2.0 Hz, flash style pulse.
Held(id, field) ==
    IF id \in DOMAIN _colorState THEN _colorState[id][field] ELSE NoColor
Precedence(held, wire, default) ==
    CASE held # NoColor -> held
      [] held = NoColor /\ wire # NoColor -> wire
      [] OTHER -> default
C38_LoadMapsResponse ==
    answered = "resolved" =>
        /\ Len(_vizData) = Len(backend)
        /\ \A k \in 1..Len(backend) :
              LET r == _vizData[k]
                  w == backend[k] IN
              /\ r.subentryId = w.subentry_id
              /\ r.colorLow = Precedence(Held(w.subentry_id, "low"), w.color_low, <<0, 255, 0>>)
              /\ r.colorHigh = Precedence(Held(w.subentry_id, "high"), w.color_high, <<255, 0, 0>>)
              /\ r.flashColor
                    = Precedence(Held(w.subentry_id, "flashColor"), w.flash_color, <<255, 0, 0>>)
              /\ r.segmentId = (IF w.segment_id = NoNum THEN 0 ELSE w.segment_id)
              /\ r.numLeds = (IF w.num_leds = NoNum THEN 30 ELSE w.num_leds)
              /\ r.updateInterval = (IF w.update_interval = NoNum THEN 5 ELSE w.update_interval)
              /\ r.flashSpeed = (IF w.flash_speed = NoNum THEN 20 ELSE w.flash_speed)
              /\ r.flashStyle = (IF w.flash_style = NoStr THEN "pulse" ELSE w.flash_style)
C38_Witness ==
    /\ answered = "resolved" /\ Len(_vizData) = 3
    /\ \E k \in 1..Len(backend) :
          /\ Held(backend[k].subentry_id, "low") # NoColor
          /\ backend[k].color_low # NoColor
          /\ _vizData[k].colorLow # backend[k].color_low
          /\ _vizData[k].colorHigh = backend[k].color_high
    /\ \E k \in 1..Len(backend) :
          /\ backend[k].color_low = NoColor /\ _vizData[k].colorLow = <<0, 255, 0>>
          /\ backend[k].flash_speed = NoNum /\ _vizData[k].flashSpeed = 20


\* C39. In the flat-retry revision a reload waits one delay of 2 s and makes
\* one load attempt, whatever the attempt returns: it sends one get_config
\* query at most, after the delay, and returns with the attempt, also when the
\* answer was empty or a rejection.
C39_FlatSingleAttempt ==
    /\ \A l \in Running :
          /\ reloads[l].i = 0 /\ reloads[l].seen = {}
          /\ reloads[l].timers = << 2000 >>
          /\ Cardinality(Owned(l)) <= 1
          /\ reloads[l].pc = "sleep" => Owned(l) = {}
    /\ \A k \in 1..Len(queries) : queries[k].owner # 0 => queries[k].owner \in Running
    /\ ended.pc = "done"
       => ended.n = 1 /\ ended.waited = 2000 /\ ended.timers = << 2000 >>
C39_Witness ==
    /\ ended.pc = "done" /\ ended.n = 1 /\ ended.last = "empty"
    /\ backend = <<>> /\ _loaded /\ _vizData = <<>> /\ Running = {} /\ queries = <<>>

====
